---- MODULE Spec2Model ----
(***************************************************************************)
(* Model of MedicalOCRProcessor (src/medical_processor.py) and of the way  *)
(* src/app.py drives it.                                                   *)
(*                                                                         *)
(* Two specifications share the module:                                    *)
(*   SpecAnalysis : analyze_medical_text -> send_to_api -> save_results    *)
(*   SpecPipeline : process_uploaded_files -> process_single_file          *)
(*                                                                         *)
(* Strings are sequences of tokens: [k, n] for the messages of the API     *)
(* client (Tok), [k, n, s] for OCR text (PTok).  Python's None is NoneInt, *)
(* NoneStr or Val("None", "") according to the type it stands in for.      *)
(***************************************************************************)
EXTENDS Integers, Sequences, FiniteSets, TLC

VARIABLES
    \* ---- analysis session (analyze_medical_text / send_to_api / save_results)
    api_pc,         \* position: "start", "send", "returned", "raised", "analysed", "saved"
    api_key,        \* credential handed to analyze_medical_text
    combined_text,  \* text handed to analyze_medical_text: [lead, core, trail]
    attempt,        \* loop variable of send_to_api (0-based)
    requests,       \* number of requests.post calls issued so far
    sleeps,         \* the time.sleep calls made so far, in order
    send_result,    \* value returned by send_to_api (a token sequence)
    ret_site,       \* which return statement of send_to_api produced send_result
    analysis,       \* value returned by analyze_medical_text
    save_ret,       \* pair returned by save_results
    json_attempted, \* save_results opened the JSON file for writing
    text_attempted, \* save_results opened the text file for writing
    \* ---- document pipeline (process_uploaded_files)
    pipe_pc,        \* position: "idle", "loop", "process", "pages", "returned", "raised"
    uploads,        \* the uploaded files, in upload order
    pipe_key,       \* self.openrouter_api_key
    use_nemotron,   \* self.use_nemotron
    file_i,         \* loop index i of process_uploaded_files (0-based)
    n_images,       \* images of the file in hand (1 for an image, len(pdf_images))
    next_page,       \* the next image of the file in hand to extract (1-based)
    acc,            \* what the extractions of the file in hand gave so far
    completed,      \* number of files whose process_single_file call has returned
    processed_files_info, \* one result record per processed file
    all_ocr_text,   \* the aggregate text
    progress_calls, \* the progress_callback invocations so far, in order
    ocr_dumps,      \* ocr_texts folder: stem -> what the file holds
    combined_file,  \* Combined_txt/all_ocr_text.txt: what the file holds
    pipe_ret,       \* what process_uploaded_files returned
    last_call       \* the call the last step made (OCR, file write, pdf_to_images)

api_vars == <<api_pc, api_key, combined_text, attempt, requests, sleeps,
              send_result, ret_site, analysis, save_ret,
              json_attempted, text_attempted>>
pipe_vars == <<pipe_pc, uploads, pipe_key, use_nemotron, file_i, n_images,
               next_page, acc, completed,
               processed_files_info, all_ocr_text, progress_calls, ocr_dumps,
               combined_file, pipe_ret, last_call>>
vars == <<api_vars, pipe_vars>>

----------------------------------------------------------------------------
(* Program constants *)

max_retries == 3
base_delay == 2
BackoffCap == 60
RetryAfterDefault == 30
MinAnalysisLen == 100
MinOcrLen == 10
PageMarkerLen == 14
PlaceholderLen == 32
SentinelLen == 30

(* Bounds of the model *)

MaxPad == 1
MaxRetryAfter == 2
MaxFiles == 2
MaxPages == 2
MaxImages == 3

----------------------------------------------------------------------------
(* Small helpers *)

Min(a, b) == IF a <= b THEN a ELSE b

Tok(kind) == [k |-> kind, n |-> 0]

StartsWith(s, p) == Len(s) >= Len(p) /\ SubSeq(s, 1, Len(p)) = p

----------------------------------------------------------------------------
(* Retrying API client: exponential_backoff and send_to_api *)

\* An optional integer: Python's None, or an int.
NoneInt == [some |-> FALSE, v |-> 0]
SomeInt(n) == [some |-> TRUE, v |-> n]

\* Python truthiness of an optional integer: None and 0 are false.
Truthy(x) == x.some /\ x.v # 0

exponential_backoff(att, retry_after) ==
    IF Truthy(retry_after)
    THEN retry_after.v
    ELSE Min(base_delay * (2 ^ att), BackoffCap)

\* The Retry-After header of a response: absent, an integer, or other text.
Header(kind, v) == [kind |-> kind, v |-> v]

RetryAfterHeaders ==
    {Header("absent", 0), Header("text", 0)}
        \cup {Header("int", n) : n \in (-1 .. MaxRetryAfter) \cup {BackoffCap + 1}}

\* int(response.headers.get('Retry-After', 30)): [ok, v]; not ok is ValueError.
RetryAfterOf(hdr) ==
    CASE hdr.kind = "absent" -> [ok |-> TRUE, v |-> RetryAfterDefault]
      [] hdr.kind = "int"    -> [ok |-> TRUE, v |-> hdr.v]
      [] OTHER               -> [ok |-> FALSE, v |-> 0]

\* A JSON body: does it parse, is it an object, what 'choices' holds, whether
\* the first choice has a 'message', and what its 'content' is.
Body(json, choices, message, content, text) ==
    [json |-> json, choices |-> choices, message |-> message,
     content |-> content, text |-> text]

Completions == {<<Tok("Assessment")>>, <<Tok("Failed"), Tok("renal panel noted")>>}

Bodies ==
    {Body("invalid", "missing", "missing", "missing", <<>>),
     Body("list", "missing", "missing", "missing", <<>>),
     Body("dict", "missing", "missing", "missing", <<>>),
     Body("dict", "empty", "missing", "missing", <<>>),
     Body("dict", "one", "missing", "missing", <<>>),
     Body("dict", "one", "present", "missing", <<>>),
     Body("dict", "one", "present", "null", <<>>),
     Body("dict", "one", "present", "empty", <<>>)}
        \cup {Body("dict", "one", "present", "text", t) : t \in Completions}

\* What requests.post yields: a network failure, or a response.
Response(net, status, hdr, body) ==
    [net |-> net, status |-> status, hdr |-> hdr, body |-> body]

NoBody == Body("invalid", "missing", "missing", "missing", <<>>)

Responses ==
    {Response("error", 0, Header("absent", 0), NoBody)}
        \cup {Response("ok", 429, h, NoBody) : h \in RetryAfterHeaders}
        \cup {Response("ok", 500, Header("absent", 0), NoBody)}
        \cup {Response("ok", 200, Header("absent", 0), b) : b \in Bodies}

\* response.raise_for_status(): HTTPError for 4xx and 5xx.
RaisesForStatus(status) == status >= 400 /\ status < 600

\* An exception: its class as the except clauses see it, and its message.
Exc(cls, msg) == [cls |-> cls, msg |-> msg]
NoExc == Exc("none", "")

\* result.get('choices', [{}])[0].get('message', {}).get('content', ''):
\* the exception it raises, or the content it yields (None is [none |-> TRUE]).
\* jsonErrorIsRequestException: whether the installed requests library raises
\* its own JSONDecodeError (a RequestException) for an unparsable body.
ContentOf(body, jsonErrorIsRequestException) ==
    CASE body.json = "invalid" ->
            [exc |-> Exc(IF jsonErrorIsRequestException
                         THEN "RequestException" ELSE "Exception",
                         "JSONDecodeError"),
             none |-> FALSE, s |-> <<>>]
      [] body.json = "list" ->
            [exc |-> Exc("Exception", "AttributeError"), none |-> FALSE, s |-> <<>>]
      [] body.choices = "empty" ->
            [exc |-> Exc("Exception", "IndexError"), none |-> FALSE, s |-> <<>>]
      [] body.choices = "missing" \/ body.message = "missing"
            \/ body.content \in {"missing", "empty"} ->
            [exc |-> NoExc, none |-> FALSE, s |-> <<>>]
      [] body.content = "null" ->
            [exc |-> NoExc, none |-> TRUE, s |-> <<>>]
      [] OTHER ->
            [exc |-> NoExc, none |-> FALSE, s |-> body.text]

\* What one pass through the loop body of send_to_api does.
\*   kind  : "continue" (sleep, next attempt), "return", "raise"
\*   delay : seconds slept (kind = "continue")
\*   cause : "429" when the sleep is the one of line 412, "except" otherwise
Continue(delay, cause) ==
    [kind |-> "continue", delay |-> delay, cause |-> cause,
     value |-> <<>>, site |-> "none"]
Return(value, site) ==
    [kind |-> "return", delay |-> 0, cause |-> "none",
     value |-> value, site |-> site]
Raise(e) ==
    [kind |-> "raise", delay |-> 0, cause |-> "none",
     value |-> <<Tok(e.msg)>>, site |-> "raise"]

\* except requests.exceptions.RequestException as e (lines 427-432)
ExceptRequestExceptionReraise(att, e) ==
    IF att < max_retries - 1
    THEN Continue(exponential_backoff(att, NoneInt), "except")
    ELSE Raise(e)

ExceptRequestException(att, e) ==
    IF att < max_retries - 1
    THEN Continue(exponential_backoff(att, NoneInt), "except")
    ELSE Return(<<Tok("Request error:"), Tok(e.msg)>>, "RequestError")

\* except Exception as e (lines 433-438)
ExceptException(att, e) ==
    IF att < max_retries - 1
    THEN Continue(exponential_backoff(att, NoneInt), "except")
    ELSE Return(<<Tok("Unexpected error:"), Tok(e.msg)>>, "UnexpectedError")

Handle(att, e) ==
    IF e.cls = "RequestException"
    THEN ExceptRequestException(att, e)
    ELSE ExceptException(att, e)

\* The 429 branch (lines 407-415).
RateLimited(att, hdr) ==
    LET ra == RetryAfterOf(hdr)
        wait_time == exponential_backoff(att, SomeInt(ra.v))
    IN  IF ~ra.ok
        THEN Handle(att, Exc("Exception", "ValueError"))
        ELSE IF att < max_retries - 1
             THEN IF wait_time < 0
                  THEN Handle(att, Exc("Exception", "ValueError"))  \* time.sleep(<0)
                  ELSE Continue(wait_time, "429")
             ELSE Handle(att, Exc("RequestException", "HTTPError"))

\* Lines 417-425: the response is not a 429.
ParseResponse(att, resp, jsonErrorIsRequestException) ==
    LET c == ContentOf(resp.body, jsonErrorIsRequestException)
    IN  IF RaisesForStatus(resp.status)
        THEN Handle(att, Exc("RequestException", "HTTPError"))
        ELSE IF c.exc # NoExc
             THEN Handle(att, c.exc)
             ELSE IF c.none \/ c.s = <<>>
                  THEN Return(<<Tok("Empty response from API")>>, "EmptyResponse")
                  ELSE Return(c.s, "Completion")

\* One pass through the try block (lines 374-438).
LoopBody(att, callback_raises, resp, jsonErrorIsRequestException) ==
    IF callback_raises
    THEN Handle(att, Exc("Exception", "CallbackError"))
    ELSE IF resp.net = "error"
         THEN Handle(att, Exc("RequestException", "ConnectionError"))
         ELSE IF resp.status = 429
              THEN RateLimited(att, resp.hdr)
              ELSE ParseResponse(att, resp, jsonErrorIsRequestException)

\* for attempt in range(self.max_retries)
InRange(att) == att < max_retries

\* The loop variable after `continue`.
NextAttemptStuck(att) == att

NextAttempt(att) == att + 1

FailedAfterRetries == <<Tok("Failed"), Tok("after multiple retries")>>

\* send_to_api at loop variable att: the loop body, or the statement after the loop.
send_to_api_step(att, callback_raises, resp, jsonErrorIsRequestException) ==
    IF InRange(att)
    THEN LoopBody(att, callback_raises, resp, jsonErrorIsRequestException)
    ELSE Return(FailedAfterRetries, "Exhausted")

----------------------------------------------------------------------------
(* Analysis submitter: analyze_medical_text *)

\* A text as analyze_medical_text sees it: lead whitespace characters, then
\* core characters (from the first to the last non-whitespace one), then
\* trail whitespace characters.
Text(lead, core, trail) == [lead |-> lead, core |-> core, trail |-> trail]

PyLen(t) == t.lead + t.core + t.trail

Strip(t) == Text(0, t.core, 0)

AnalysisTexts ==
    {Text(l, c, t) : l \in 0 .. MaxPad, t \in 0 .. MaxPad,
                     c \in {0} \cup ((MinAnalysisLen - 2) .. (MinAnalysisLen + 1))}

CrossMark == Tok("cross-mark")

MissingCredential == <<CrossMark, Tok("API key is required for analysis")>>

InsufficientInput == <<CrossMark, Tok("No meaningful text extracted for analysis")>>

\* Lines 444-448: the early returns of analyze_medical_text.
PrecheckNoKeyTest(text, key) ==
    IF PyLen(text) = 0 \/ PyLen(Strip(text)) < MinAnalysisLen
    THEN "InsufficientInput"
    ELSE "ok"

Precheck(text, key) ==
    IF key = ""
    THEN "MissingCredential"
    ELSE IF PyLen(text) = 0 \/ PyLen(Strip(text)) < MinAnalysisLen
         THEN "InsufficientInput"
         ELSE "ok"

ErrorPrefixes == {<<Tok("Error:")>>, <<Tok("Request error:")>>, <<Tok("Failed")>>}

AnalysisFailed == <<CrossMark, Tok("Analysis failed:")>>

\* Lines 504-507: result.startswith(("Error:", "Request error:", "Failed")).
WrapResult(result) ==
    IF \E p \in ErrorPrefixes : StartsWith(result, p)
    THEN AnalysisFailed \o result
    ELSE result

----------------------------------------------------------------------------
(* Result persister: save_results *)

Val(kind, v) == [k |-> kind, v |-> v]

\* save_results when the JSON write succeeds or not, and the text write
\* succeeds or not: the pair returned and the writes attempted.
save_results(json_ok, text_ok) ==
    IF ~json_ok
    THEN [ret |-> <<Val("None", ""), Val("error", "Error saving JSON")>>,
          json_attempted |-> TRUE, text_attempted |-> FALSE]
    ELSE IF text_ok
         THEN [ret |-> <<Val("path", "json"), Val("path", "txt")>>,
               json_attempted |-> TRUE, text_attempted |-> TRUE]
         ELSE [ret |-> <<Val("path", "json"), Val("error", "Error saving text file")>>,
               json_attempted |-> TRUE, text_attempted |-> TRUE]

----------------------------------------------------------------------------
(* The analysis session: app.py calls analyze_medical_text and, when the   *)
(* answer does not start with the cross mark, save_results.                *)

NoPair == <<Val("None", ""), Val("None", "")>>

PipeIdle ==
    /\ pipe_pc = "idle"
    /\ uploads = <<>>
    /\ pipe_key = ""
    /\ use_nemotron = TRUE
    /\ file_i = 0
    /\ n_images = 0
    /\ next_page = 0
    /\ acc = <<>>
    /\ completed = 0
    /\ processed_files_info = <<>>
    /\ all_ocr_text = <<>>
    /\ progress_calls = <<>>
    /\ ocr_dumps = <<>>
    /\ combined_file = <<>>
    /\ pipe_ret = "none"
    /\ last_call = <<>>

InitAnalysis ==
    /\ api_pc = "start"
    /\ api_key \in {"", "sk-or-key"}
    /\ combined_text \in AnalysisTexts
    /\ attempt = 0
    /\ requests = 0
    /\ sleeps = <<>>
    /\ send_result = <<>>
    /\ ret_site = "none"
    /\ analysis = <<>>
    /\ save_ret = NoPair
    /\ json_attempted = FALSE
    /\ text_attempted = FALSE
    /\ PipeIdle

\* analyze_medical_text up to the call of send_to_api (lines 442-502).
AnalyzeStart ==
    /\ api_pc = "start"
    /\ LET pre == Precheck(combined_text, api_key)
       IN  /\ api_pc' = IF pre = "ok" THEN "send" ELSE "analysed"
           /\ analysis' = CASE pre = "MissingCredential" -> MissingCredential
                            [] pre = "InsufficientInput" -> InsufficientInput
                            [] OTHER -> analysis
    /\ UNCHANGED <<api_key, combined_text, attempt, requests, sleeps, send_result,
                   ret_site, save_ret, json_attempted, text_attempted>>
    /\ UNCHANGED pipe_vars

\* One pass of the retry loop of send_to_api (lines 373-440).
SendToApiAttempt ==
    /\ api_pc = "send"
    /\ \E callback_raises \in BOOLEAN, resp \in Responses, jsonErr \in BOOLEAN :
         LET o == send_to_api_step(attempt, callback_raises, resp, jsonErr)
             requested == InRange(attempt) /\ ~callback_raises
         IN  /\ requests' = IF requested THEN requests + 1 ELSE requests
             /\ CASE o.kind = "continue" ->
                       /\ attempt' = NextAttempt(attempt)
                       /\ sleeps' = Append(sleeps,
                              [attempt |-> attempt,
                               cause |-> o.cause,
                               status |-> IF requested /\ resp.net = "ok"
                                          THEN resp.status ELSE 0,
                               hdr |-> IF requested /\ resp.net = "ok"
                                       THEN resp.hdr ELSE Header("absent", 0),
                               delay |-> o.delay])
                       /\ UNCHANGED <<api_pc, send_result, ret_site>>
                  [] o.kind = "return" ->
                       /\ api_pc' = "returned"
                       /\ send_result' = o.value
                       /\ ret_site' = o.site
                       /\ UNCHANGED <<attempt, sleeps>>
                  [] OTHER ->
                       /\ api_pc' = "raised"
                       /\ send_result' = o.value
                       /\ ret_site' = o.site
                       /\ UNCHANGED <<attempt, sleeps>>
    /\ UNCHANGED <<api_key, combined_text, analysis, save_ret,
                   json_attempted, text_attempted>>
    /\ UNCHANGED pipe_vars

\* analyze_medical_text after send_to_api returned (lines 504-507).
AnalyzeFinish ==
    /\ api_pc = "returned"
    /\ analysis' = WrapResult(send_result)
    /\ api_pc' = "analysed"
    /\ UNCHANGED <<api_key, combined_text, attempt, requests, sleeps, send_result,
                   ret_site, save_ret, json_attempted, text_attempted>>
    /\ UNCHANGED pipe_vars

\* app.py lines 298-300: an answer starting with the cross mark is shown as an error.
ShowError ==
    /\ api_pc = "analysed"
    /\ StartsWith(analysis, <<CrossMark>>)
    /\ api_pc' = "error_shown"
    /\ UNCHANGED <<api_key, combined_text, attempt, requests, sleeps, send_result,
                   ret_site, analysis, save_ret, json_attempted, text_attempted>>
    /\ UNCHANGED pipe_vars

\* app.py lines 301-305: any other answer is displayed and saved.
SaveResults ==
    /\ api_pc = "analysed"
    /\ ~StartsWith(analysis, <<CrossMark>>)
    /\ \E json_ok \in BOOLEAN, text_ok \in BOOLEAN :
         LET r == save_results(json_ok, text_ok)
         IN  /\ save_ret' = r.ret
             /\ json_attempted' = r.json_attempted
             /\ text_attempted' = r.text_attempted
    /\ api_pc' = "saved"
    /\ UNCHANGED <<api_key, combined_text, attempt, requests, sleeps, send_result,
                   ret_site, analysis>>
    /\ UNCHANGED pipe_vars

NextAnalysis ==
    \/ AnalyzeStart
    \/ SendToApiAttempt
    \/ AnalyzeFinish
    \/ ShowError
    \/ SaveResults

\* The session is one synchronous call chain: it keeps running until it ends.
SpecAnalysis == InitAnalysis /\ [][NextAnalysis]_vars /\ WF_vars(NextAnalysis)

----------------------------------------------------------------------------
(* Properties of the analysis session (checked under SpecAnalysis) *)

AfterAnalysis == api_pc \in {"analysed", "error_shown", "saved"}

ErrorSites == {"RequestError", "EmptyResponse", "UnexpectedError", "Exhausted"}

\* C1: whenever attempt i (1-based, i < max_retries) receives HTTP 429 with no
\* Retry-After header, the delay slept before the next attempt is
\* min(2 * 2^(i-1), 60) seconds.  (sleeps[k].attempt is 0-based: i - 1.)
C1_BackoffAfter429WithoutHint ==
    \A k \in DOMAIN sleeps :
        (sleeps[k].status = 429 /\ sleeps[k].hdr.kind = "absent")
            => sleeps[k].delay = Min(2 * (2 ^ sleeps[k].attempt), 60)

\* C2: every error value send_to_api returns reaches the caller of
\* analyze_medical_text with the failure prefix in front of it.
C2_ErrorsArePrefixed ==
    (AfterAnalysis /\ ret_site \in ErrorSites)
        => StartsWith(analysis, AnalysisFailed)

\* C3: save_results attempts both writes whatever the other's outcome, and
\* returns (JSON path or JSON error, text path or text error).
C3_WritesIndependent ==
    api_pc = "saved"
        => /\ json_attempted
           /\ text_attempted
           /\ save_ret[1] \in {Val("path", "json"), Val("error", "Error saving JSON")}
           /\ save_ret[2] \in {Val("path", "txt"),
                               Val("error", "Error saving text file")}

\* C6: one send_to_api call issues at most max_retries requests, never goes
\* past the last attempt, and every call returns.
C6_BoundedRetries ==
    /\ [](requests <= max_retries /\ attempt < max_retries)
    /\ (api_pc = "send") ~> (api_pc = "returned")

\* C6 witness: all max_retries requests were issued and the call returned a failure.
C6_Witness ==
    api_pc = "returned" /\ requests = max_retries /\ ret_site = "RequestError"

\* C7: send_to_api never raises to its caller; what it returns is the
\* completion text or one of its error values.
C7_NeverRaises ==
    /\ api_pc # "raised"
    /\ api_pc = "returned"
         => /\ ret_site \in ErrorSites \cup {"Completion"}
            /\ send_result # <<>>
            /\ ret_site = "Completion" => send_result \in Completions

\* C7 witness: the last attempt got a 2xx body that could not be used, and the
\* call returned the "Unexpected error" value.
C7_Witness ==
    /\ api_pc = "returned"
    /\ requests = max_retries
    /\ ret_site = "UnexpectedError"
    /\ send_result = <<Tok("Unexpected error:"), Tok("IndexError")>>

\* C8: an empty completion is retried while attempts remain: the EmptyResponse
\* error is returned only by the last attempt.
C8_EmptyResponseRetried ==
    (api_pc = "returned" /\ ret_site = "EmptyResponse")
        => attempt = max_retries - 1

\* C9: with an empty credential analyze_medical_text returns MissingCredential,
\* with a credential and a text shorter than 100 characters it returns
\* InsufficientInput, and in both cases no request is ever issued.
C9_PreconditionsFailFast ==
    /\ api_key = ""
         => /\ requests = 0
            /\ api_pc # "start" => analysis = MissingCredential
    /\ (api_key # "" /\ PyLen(combined_text) < 100)
         => /\ requests = 0
            /\ api_pc # "start" => analysis = InsufficientInput

\* C9 witness: a credential and a 99-character text ended in InsufficientInput.
C9_Witness ==
    /\ api_pc = "error_shown"
    /\ api_key # ""
    /\ PyLen(combined_text) = 99
    /\ analysis = InsufficientInput
    /\ requests = 0

\* C13: a sleep that follows a 429 carrying a Retry-After hint of n seconds
\* lasts exactly n seconds; the exponential value is slept after a 429 only
\* when the response carries no hint.
C13_HintIsTheDelay ==
    \A k \in DOMAIN sleeps :
        (sleeps[k].status = 429 /\ sleeps[k].hdr.kind = "int" /\ sleeps[k].hdr.v >= 0)
            => sleeps[k].delay = sleeps[k].hdr.v

----------------------------------------------------------------------------
(* Text normalizer: OCR text as token sequences, and clean_text *)

\* A token of OCR text: [k, n, s].
\*   "text"        n characters of recognised text, no whitespace at either end
\*   "ws"          a run of n whitespace or control characters
\*   "page_marker" the line "--- Page n ---"
\*   "placeholder" "[OCR failed or no text detected]"
\*   "sentinel"    "OCR failed - no text extracted"
\*   "file_header" the line "--- s ---" (s is a file name)
PTok(kind, n, name) == [k |-> kind, n |-> n, s |-> name]
TextTok(n) == PTok("text", n, "")
Ws(n) == PTok("ws", n, "")
PageMarker(n) == PTok("page_marker", n, "")
Placeholder == PTok("placeholder", 0, "")
Sentinel == PTok("sentinel", 0, "")
FileHeader(name) == PTok("file_header", 0, name)

IsWs(t) == t.k = "ws"

TokLen(t) ==
    CASE t.k \in {"text", "ws"} -> t.n
      [] t.k = "page_marker"    -> PageMarkerLen
      [] t.k = "placeholder"    -> PlaceholderLen
      [] t.k = "sentinel"       -> SentinelLen
      [] OTHER                  -> 0

RECURSIVE StrLen(_)
StrLen(str) == IF str = <<>> THEN 0 ELSE TokLen(Head(str)) + StrLen(Tail(str))

\* re.sub over the two patterns of clean_text: every run of control and
\* whitespace characters becomes one space.
RECURSIVE Collapse(_)
Collapse(str) ==
    IF str = <<>>
    THEN <<>>
    ELSE LET rest == Collapse(Tail(str))
         IN  IF IsWs(Head(str))
             THEN IF rest # <<>> /\ IsWs(Head(rest)) THEN rest ELSE <<Ws(1)>> \o rest
             ELSE <<Head(str)>> \o rest

\* str.strip()
RECURSIVE LStrip(_)
LStrip(str) ==
    IF str # <<>> /\ IsWs(Head(str)) THEN LStrip(Tail(str)) ELSE str

RECURSIVE RStrip(_)
RStrip(str) ==
    IF str # <<>> /\ IsWs(str[Len(str)])
    THEN RStrip(SubSeq(str, 1, Len(str) - 1))
    ELSE str

StripStr(str) == RStrip(LStrip(str))

\* An optional string: None, or a string.
NoneStr == [none |-> TRUE, str |-> <<>>]
Str(str) == [none |-> FALSE, str |-> str]

\* Python truthiness of an optional string: None and "" are false.
TruthyStr(x) == ~x.none /\ x.str # <<>>

\* clean_text(text) for a string; clean_text(None) is "".
clean_text(x) == IF x.none THEN <<>> ELSE StripStr(Collapse(x.str))

----------------------------------------------------------------------------
(* Text extractor: extract_text_with_nemotron, extract_text_with_tesseract, *)
(* extract_text_from_image                                                  *)

\* What a backend does with one image: it fails, or it reads raw text.
Ocr(fail, raw) == [fail |-> fail, raw |-> raw]

RemoteOutcomes ==
    {Ocr(TRUE, <<>>),
     Ocr(FALSE, <<>>),
     Ocr(FALSE, <<TextTok(MinOcrLen)>>),
     Ocr(FALSE, <<TextTok(MinOcrLen + 1), Ws(1)>>)}

LocalOutcomes ==
    {Ocr(TRUE, <<>>),
     Ocr(FALSE, <<Ws(2)>>),
     Ocr(FALSE, <<TextTok(3), Ws(2)>>),
     Ocr(FALSE, <<TextTok(MinOcrLen + 2), Ws(2)>>)}

\* An image, as far as OCR goes: what each backend would make of it.
Images == [remote : RemoteOutcomes, local : LocalOutcomes]

\* What a backend call gives its caller: the pair it returns, or the
\* exception it lets through.
Extracted(text, method) == [raised |-> FALSE, text |-> text, method |-> method]
Raising(e) == [raised |-> TRUE, text |-> NoneStr, method |-> e]

\* Lines 85-143: the body of extract_text_with_nemotron; its retry loop is
\* summarised by its outcome.
TryNemotron(image, key) ==
    IF key = ""
    THEN Extracted(NoneStr, "No API key")
    ELSE IF image.remote.fail
         THEN Raising("RequestException")
         ELSE Extracted(Str(clean_text(Str(image.remote.raw))), "NVIDIA Nemotron")

\* Lines 145-156: the except clauses of extract_text_with_nemotron and the
\* return after the loop.
ExceptNemotron(r) ==
    IF r.raised THEN Extracted(NoneStr, "NVIDIA Nemotron failed") ELSE r

extract_text_with_nemotron(image, key) == ExceptNemotron(TryNemotron(image, key))

\* Lines 160-163: the try block of extract_text_with_tesseract.
TryTesseract(image) ==
    IF image.local.fail
    THEN Raising("Exception")
    ELSE Extracted(Str(clean_text(Str(image.local.raw))), "Tesseract")

\* A handler that lets the exception through.
ExceptTesseractReraise(r) == r

\* Lines 164-169: the except clauses of extract_text_with_tesseract.
ExceptTesseract(r) ==
    IF r.raised THEN Extracted(NoneStr, "Tesseract failed") ELSE r

extract_text_with_tesseract(image) == ExceptTesseract(TryTesseract(image))

\* What extract_text_from_image gives its caller.  tried lists the backend
\* calls it made, in call order, each with what the backend gave.
Returned(text, method, tried) ==
    [raised |-> FALSE, text |-> text, method |-> method, tried |-> tried]
Propagated(e, tried) ==
    [raised |-> TRUE, text |-> <<>>, method |-> e, tried |-> tried]

BackendCall(backend, gave) == [backend |-> backend, gave |-> gave]

\* Line 175 as written: len(text.strip()) > 10.
AcceptsRemote(text) == TruthyStr(text) /\ StrLen(StripStr(text.str)) > MinOcrLen

\* extract_text_from_image (lines 171-183).  It has no handler of its own:
\* an exception a backend lets through goes to the caller.
extract_text_from_image(image, key, nemotron_enabled) ==
    LET use_remote == nemotron_enabled /\ key # ""
        remote == extract_text_with_nemotron(image, key)
        local == extract_text_with_tesseract(image)
        first == IF use_remote THEN <<BackendCall("remote", remote)>> ELSE <<>>
        both == Append(first, BackendCall("local", local))
    IN  IF use_remote /\ remote.raised
        THEN Propagated(remote.method, first)
        ELSE IF use_remote /\ AcceptsRemote(remote.text)
        THEN Returned(remote.text.str, remote.method, first)
        ELSE IF local.raised
        THEN Propagated(local.method, both)
        ELSE IF TruthyStr(local.text)
        THEN Returned(local.text.str, local.method, both)
        ELSE Returned(<<Sentinel>>, "Failed", both)

\* The call a step of the pipeline made, with what came out: none, or one
\* call of extract_text_from_image.
NoCall == [kind |-> "none"]
OcrCall(ret) == [kind |-> "ocr", ret |-> ret]

----------------------------------------------------------------------------
(* Document pipeline: process_single_file and process_uploaded_files *)

\* An uploaded file.  type is the declared MIME type as <<group, subtype>>;
\* decodable: Image.open accepts the bytes; pages: pages of the PDF document.
UploadedFile(name, type, decodable, pages) ==
    [name |-> name, type |-> type, decodable |-> decodable, pages |-> pages]

Files ==
    {UploadedFile(nm, <<"image", "png">>, d, 0) :
        nm \in {"a.png", "b.png"}, d \in BOOLEAN}
      \cup {UploadedFile("a.pdf", <<"application", "pdf">>, TRUE, n) : n \in 0 .. MaxPages}
      \cup {UploadedFile("notes.txt", <<"text", "plain">>, TRUE, 0)}

\* Path(file_name).stem
PathStem(name) ==
    CASE name \in {"a.png", "a.pdf"} -> "a"
      [] name = "b.png"              -> "b"
      [] OTHER                       -> "notes"

Stems == {"a", "b", "notes"}

\* file_type.startswith('image/')
IsImageType(type) == type[1] = "image"

IsPdfType(type) == type = <<"application", "pdf">>

\* The number of images OCR is run on for a file, at most.
Units(file) ==
    IF IsImageType(file.type) THEN 1
    ELSE IF IsPdfType(file.type) THEN file.pages ELSE 0

RECURSIVE TotalUnits(_)
TotalUnits(files) ==
    IF files = <<>> THEN 0 ELSE Units(Head(files)) + TotalUnits(Tail(files))

Batches ==
    {b \in UNION {[1 .. n -> Files] : n \in 1 .. MaxFiles} : TotalUnits(b) <= MaxImages}

\* A result record of process_single_file.  A key the dict does not hold is
\* marked: has_ocr_text = FALSE, page_count = -1, successful_pages = -1,
\* method = "".  methods lists what extract_text_from_image gave as the
\* backend for each image of the file, in order.
Result(filename, type, status, has_ocr_text, ocr_text, text_length, page_count, successful_pages, method, methods) ==
    [filename |-> filename, type |-> type, status |-> status,
     has_ocr_text |-> has_ocr_text, ocr_text |-> ocr_text,
     text_length |-> text_length, page_count |-> page_count,
     successful_pages |-> successful_pages, method |-> method,
     methods |-> methods]

NoDump == [write |-> FALSE, stem |-> "", text |-> <<>>]
Dump(stem, text) == [write |-> TRUE, stem |-> stem, text |-> text]

\* except Exception as e (lines 330-337)
ErrorResult(file, status) ==
    [result |-> Result(file.name, file.type, status, FALSE, <<>>, 0, -1, -1, "", <<>>),
     dump |-> NoDump]

\* extract_text_from_image results gathered so far for the file in hand:
\* text and successful_pages and method as in lines 291-293, and methods, the
\* backend extract_text_from_image named for each image, in order.
NoAcc == [text |-> <<>>, successful_pages |-> 0, method |-> "Tesseract",
          methods |-> <<>>]

\* Lines 295-303: one pass of the page loop, e being what
\* extract_text_from_image returned for page page_num.
PageStep(sofar, page_num, e) ==
    LET valid == e.text # <<>> /\ StrLen(StripStr(e.text)) > MinOcrLen
    IN  [text |-> sofar.text \o <<PageMarker(page_num), Ws(2)>>
                     \o (IF valid THEN e.text ELSE <<Placeholder>>)
                     \o <<Ws(2)>>,
         successful_pages |-> IF valid THEN sofar.successful_pages + 1
                              ELSE sofar.successful_pages,
         method |-> e.method,
         methods |-> Append(sofar.methods, e.method)]

\* Line 264: the one extraction of an image file.
ImageStep(sofar, e) ==
    [text |-> e.text, successful_pages |-> 0, method |-> e.method,
     methods |-> <<e.method>>]

\* Lines 266-277: the dump and the result of an image file.
ImageResult(file, sofar, dump_ok) ==
    IF ~dump_ok
    THEN ErrorResult(file, "Error: cannot write file")
    ELSE [result |-> Result(file.name, <<"Image">>, "Success", TRUE,
                            sofar.text, StrLen(sofar.text), -1, -1,
                            sofar.method, sofar.methods),
          dump |-> Dump(PathStem(file.name), sofar.text)]

\* Lines 305-320: the dump and the result of a PDF whose pages were extracted.
PdfResult(file, page_count, sofar, dump_ok) ==
    LET pdf_ocr_text == clean_text(Str(sofar.text))
    IN  IF ~dump_ok
        THEN ErrorResult(file, "Error: cannot write file")
        ELSE [result |-> Result(file.name, <<"PDF">>, "Success", TRUE,
                                pdf_ocr_text, StrLen(pdf_ocr_text),
                                page_count, sofar.successful_pages,
                                sofar.method, sofar.methods),
              dump |-> Dump(PathStem(file.name), pdf_ocr_text)]

\* Lines 283-289: pdf_to_images gave no image.
NoImagesResult(file) ==
    [result |-> Result(file.name, <<"PDF">>, "Failed: No images extracted",
                       FALSE, <<>>, 0, -1, -1, "", <<>>),
     dump |-> NoDump]

\* An unsupported type handled as a failure of the file.
UnsupportedResultAsError(file) == ErrorResult(file, "Error: unsupported file type")

\* Lines 322-328: neither an image nor a PDF.
UnsupportedResult(file) ==
    [result |-> Result(file.name, file.type, "Unsupported format",
                       FALSE, <<>>, 0, -1, -1, "", <<>>),
     dump |-> NoDump]

\* Lines 352-354: what one result adds to the aggregate text.
Aggregated(text, result) ==
    IF result.status = "Success" /\ result.has_ocr_text
    THEN text \o <<FileHeader(result.filename), Ws(2)>> \o result.ocr_text \o <<Ws(2)>>
    ELSE text

\* The text process_single_file holds for the file when it comes to write
\* the dump: text (line 264) or pdf_ocr_text (line 305).
TextInHand(file, sofar) ==
    IF IsImageType(file.type) THEN sofar.text ELSE clean_text(Str(sofar.text))

\* One attempt to write a text artifact: the dump of upload number index
\* (lines 266-268, 307-309) or the combined file (lines 356-359, index 0).
WriteCall(artifact, index, ok, text) ==
    [kind |-> "write", artifact |-> artifact, index |-> index, ok |-> ok,
     text |-> text]

\* How far one call of pdf_to_images gets: failed names the step that
\* raises ("write": tmp_file.write, line 193; "open": fitz.open, line 197;
\* "render": a page of the loop of lines 198-218; "none"), rendered is the
\* number of pages appended to images before that, and unlink_ok says what
\* os.unlink (line 226) does if it is called.
PdfRun(failed, rendered, unlink_ok) ==
    [failed |-> failed, rendered |-> rendered, unlink_ok |-> unlink_ok]

PdfRuns(pages) ==
    {PdfRun("write", 0, TRUE)}
      \cup {PdfRun("open", 0, u) : u \in BOOLEAN}
      \cup {PdfRun("render", k, u) : k \in 0 .. pages - 1, u \in BOOLEAN}
      \cup {PdfRun("none", pages, u) : u \in BOOLEAN}

\* pdf_to_images (lines 185-230): images is the length of the list it
\* returns, left the number of scratch files on disk when it returns.  The
\* scratch file exists from line 192 on; temp_file_path is assigned after
\* tmp_file.write (lines 193-194); the finally clause unlinks only a path
\* that was assigned, and passes over a failure of os.unlink (lines 222-228).
pdf_to_images(run) ==
    LET temp_file_path_set == run.failed # "write"
    IN  [images |-> run.rendered,
         left |-> IF temp_file_path_set /\ run.unlink_ok THEN 0 ELSE 1]

\* One call of pdf_to_images: how it ran and what it gave.
PdfCall(run, ret) == [kind |-> "pdf_to_images", run |-> run, ret |-> ret]

NoFile == [exists |-> FALSE, text |-> <<>>]
FileWith(text) == [exists |-> TRUE, text |-> text]

\* The combined file an earlier run of the processor left in Combined_txt
\* (setup_directories keeps what the folders hold: exist_ok=True, lines 54-58).
PreviousAggregate == <<FileHeader("old.png"), Ws(2), TextTok(MinOcrLen + 2), Ws(2)>>

\* An aggregate that goes on from what the combined file holds.
AggregateCarriedOver(on_disk) == on_disk.text

\* Line 341: all_ocr_text = "", whatever an earlier run left.
FreshAggregate(on_disk) == <<>>

ApiIdle ==
    /\ api_pc = "idle"
    /\ api_key = ""
    /\ combined_text = Text(0, 0, 0)
    /\ attempt = 0
    /\ requests = 0
    /\ sleeps = <<>>
    /\ send_result = <<>>
    /\ ret_site = "none"
    /\ analysis = <<>>
    /\ save_ret = NoPair
    /\ json_attempted = FALSE
    /\ text_attempted = FALSE

\* The state in which process_uploaded_files starts (lines 341-343), on a
\* processor whose folders hold the combined file of an earlier run.
InitPipeline ==
    /\ pipe_pc = "loop"
    /\ uploads \in Batches
    /\ pipe_key \in {"", "sk-or-key"}
    /\ use_nemotron \in BOOLEAN
    /\ file_i = 0
    /\ n_images = 0
    /\ next_page = 0
    /\ acc = NoAcc
    /\ completed = 0
    /\ processed_files_info = <<>>
    /\ combined_file = FileWith(PreviousAggregate)
    /\ all_ocr_text = FreshAggregate(combined_file)
    /\ progress_calls = <<>>
    /\ ocr_dumps = [st \in Stems |-> NoFile]
    /\ pipe_ret = "none"
    /\ last_call = NoCall
    /\ ApiIdle

\* Lines 346-347: progress_callback(i + 1, len(uploaded_files)); app.py's
\* update_file_progress receives it as (completed, total).
ReportProgress ==
    /\ pipe_pc = "loop"
    /\ file_i < Len(uploads)
    /\ progress_calls' = Append(progress_calls,
           [completed |-> file_i + 1, total |-> Len(uploads),
            files_done |-> completed])
    /\ pipe_pc' = "process"
    /\ UNCHANGED <<uploads, pipe_key, use_nemotron, file_i, n_images, next_page,
                   acc, completed, processed_files_info, all_ocr_text,
                   ocr_dumps, combined_file, pipe_ret>>
    /\ last_call' = NoCall
    /\ UNCHANGED api_vars

\* A loop that a file without status "Success" brings to an end.
FileDoneAborting(r) ==
    /\ processed_files_info' = Append(processed_files_info, r.result)
    /\ all_ocr_text' = Aggregated(all_ocr_text, r.result)
    /\ ocr_dumps' = ocr_dumps
    /\ completed' = completed + 1
    /\ file_i' = file_i + 1
    /\ n_images' = 0
    /\ next_page' = 0
    /\ acc' = NoAcc
    /\ pipe_pc' = IF r.result.status = "Success" THEN "loop" ELSE "raised"

\* process_single_file returns r: lines 350-354 of process_uploaded_files, and
\* the dump the call wrote.
FileDone(r) ==
    /\ processed_files_info' = Append(processed_files_info, r.result)
    /\ all_ocr_text' = Aggregated(all_ocr_text, r.result)
    /\ ocr_dumps' = IF r.dump.write
                    THEN [ocr_dumps EXCEPT ![r.dump.stem] = FileWith(r.dump.text)]
                    ELSE ocr_dumps
    /\ completed' = completed + 1
    /\ file_i' = file_i + 1
    /\ n_images' = 0
    /\ next_page' = 0
    /\ acc' = NoAcc
    /\ pipe_pc' = "loop"

\* process_single_file up to its first extraction (lines 254-293): the file
\* is decoded or rasterised.  For a PDF the way pdf_to_images runs is chosen
\* here.
BeginFile ==
    /\ pipe_pc = "process"
    /\ LET file == uploads[file_i + 1]
       IN  IF IsImageType(file.type)
           THEN /\ IF file.decodable
                   THEN /\ pipe_pc' = "pages"
                        /\ n_images' = 1
                        /\ next_page' = 1
                        /\ acc' = NoAcc
                        /\ UNCHANGED <<file_i, completed, processed_files_info,
                                       all_ocr_text, ocr_dumps>>
                   ELSE FileDone(ErrorResult(file, "Error: cannot identify image file"))
                /\ last_call' = NoCall
           ELSE IF IsPdfType(file.type)
           THEN \E run \in PdfRuns(file.pages) :
                  LET pdf_images == pdf_to_images(run)
                  IN  /\ last_call' = PdfCall(run, pdf_images)
                      /\ IF pdf_images.images = 0
                         THEN FileDone(NoImagesResult(file))
                         ELSE /\ pipe_pc' = "pages"
                              /\ n_images' = pdf_images.images
                              /\ next_page' = 1
                              /\ acc' = NoAcc
                              /\ UNCHANGED <<file_i, completed, processed_files_info,
                                             all_ocr_text, ocr_dumps>>
           ELSE /\ FileDone(UnsupportedResult(file))
                /\ last_call' = NoCall
    /\ UNCHANGED <<uploads, pipe_key, use_nemotron, progress_calls,
                   combined_file, pipe_ret>>
    /\ UNCHANGED api_vars

\* One call of extract_text_from_image: line 264 for an image file, one pass
\* of the loop of lines 295-303 for a PDF.  An exception coming out of the
\* call is caught by process_single_file (lines 330-337).
ExtractImage ==
    /\ pipe_pc = "pages"
    /\ next_page <= n_images
    /\ \E image \in Images :
         LET file == uploads[file_i + 1]
             e == extract_text_from_image(image, pipe_key, use_nemotron)
         IN  /\ last_call' = OcrCall(e)
             /\ IF e.raised
                THEN FileDone(ErrorResult(file, "Error: OCR raised"))
                ELSE /\ acc' = IF IsImageType(file.type)
                               THEN ImageStep(acc, e)
                               ELSE PageStep(acc, next_page, e)
                     /\ next_page' = next_page + 1
                     /\ UNCHANGED <<pipe_pc, file_i, n_images, completed,
                                    processed_files_info, all_ocr_text, ocr_dumps>>
    /\ UNCHANGED <<uploads, pipe_key, use_nemotron, progress_calls,
                   combined_file, pipe_ret>>
    /\ UNCHANGED api_vars

\* The rest of process_single_file (lines 266-277, 305-320): the dump is
\* written, or the write raises and the except clause makes the result.
EndFile ==
    /\ pipe_pc = "pages"
    /\ next_page > n_images
    /\ LET file == uploads[file_i + 1]
       IN  \E dump_ok \in BOOLEAN :
             /\ FileDone(IF IsImageType(file.type)
                         THEN ImageResult(file, acc, dump_ok)
                         ELSE PdfResult(file, n_images, acc, dump_ok))
             /\ last_call' = WriteCall("dump", file_i + 1, dump_ok,
                                       TextInHand(file, acc))
    /\ UNCHANGED <<uploads, pipe_key, use_nemotron, progress_calls,
                   combined_file, pipe_ret>>
    /\ UNCHANGED api_vars

\* Lines 356-363: write the combined text file and return.  The write is
\* under no try: a failure leaves process_uploaded_files as an exception.
FinishRun ==
    /\ pipe_pc = "loop"
    /\ file_i = Len(uploads)
    /\ \E write_ok \in BOOLEAN :
         IF all_ocr_text = <<>>
         THEN /\ pipe_pc' = "returned"
              /\ pipe_ret' = "nothing"
              /\ last_call' = NoCall
              /\ UNCHANGED combined_file
         ELSE /\ last_call' = WriteCall("combined", 0, write_ok, all_ocr_text)
              /\ IF write_ok
                 THEN /\ pipe_pc' = "returned"
                      /\ pipe_ret' = "data"
                      /\ combined_file' = FileWith(all_ocr_text)
                 ELSE /\ pipe_pc' = "raised"
                      /\ pipe_ret' = "raised"
                      /\ UNCHANGED combined_file
    /\ UNCHANGED <<uploads, pipe_key, use_nemotron, file_i, n_images, next_page,
                   acc, completed, processed_files_info, all_ocr_text,
                   progress_calls, ocr_dumps>>
    /\ UNCHANGED api_vars

NextPipeline ==
    \/ ReportProgress
    \/ BeginFile
    \/ ExtractImage
    \/ EndFile
    \/ FinishRun

\* The run is one synchronous call: it keeps running until it returns or raises.
SpecPipeline == InitPipeline /\ [][NextPipeline]_vars /\ WF_vars(NextPipeline)

----------------------------------------------------------------------------
(* Properties of the document pipeline (checked under SpecPipeline) *)

IsPageMarker(t) == t.k = "page_marker"

\* The page markers of a text, in the order they appear.
MarkersOf(text) == SelectSeq(text, IsPageMarker)

\* The token under the marker of page k: the first token after the marker
\* and the whitespace that follows it.
UnderMarker(text, k) ==
    LET i == CHOOSE j \in DOMAIN text : text[j] = PageMarker(k)
    IN  IF i + 2 <= Len(text) THEN text[i + 2] ELSE Ws(0)

PdfResults ==
    {i \in DOMAIN processed_files_info :
        /\ processed_files_info[i].type = <<"PDF">>
        /\ processed_files_info[i].has_ocr_text}

\* C4: a PDF of N pages in which the extraction of page k fails (neither
\* backend yields text) has exactly the markers of pages 1..N in order, the
\* placeholder under marker k, and successful_pages < page_count.
C4_FailedPageGetsPlaceholder ==
    \A i \in PdfResults :
        LET r == processed_files_info[i]
        IN  \A k \in DOMAIN r.methods :
                r.methods[k] = "Failed"
                    => /\ MarkersOf(r.ocr_text)
                            = [p \in 1 .. r.page_count |-> PageMarker(p)]
                       /\ UnderMarker(r.ocr_text, k) = Placeholder
                       /\ r.successful_pages < r.page_count

\* C5: a result has status "Success" if and only if it carries text that OCR
\* actually extracted.
C5_SuccessIffTextExtracted ==
    \A i \in DOMAIN processed_files_info :
        LET r == processed_files_info[i]
        IN  (r.status = "Success")
                <=> (r.has_ocr_text /\ \E j \in DOMAIN r.ocr_text : r.ocr_text[j].k = "text")

\* C10: the callback is called once per file, and whenever it is called with
\* (c, n) exactly c files have completed processing.
C10_ProgressAfterCompletion ==
    /\ \A j \in DOMAIN progress_calls :
          /\ progress_calls[j].files_done = progress_calls[j].completed
          /\ progress_calls[j].total = Len(uploads)
    /\ pipe_pc = "returned" => Len(progress_calls) = Len(uploads)

\* C11: a write of a text artifact that fails is reported for that artifact
\* only: process_uploaded_files does not raise, and the file whose dump could
\* not be written keeps status "Success" and the text that was extracted.
C11_WriteFailureIsLocal ==
    /\ pipe_pc # "raised"
    /\ (last_call.kind = "write" /\ last_call.artifact = "dump" /\ ~last_call.ok)
          => LET r == processed_files_info[last_call.index]
             IN  /\ r.status = "Success"
                 /\ r.has_ocr_text
                 /\ r.ocr_text = last_call.text

\* file_type is neither 'image/...' nor 'application/pdf'.
IsUnsupported(file) == ~IsImageType(file.type) /\ ~IsPdfType(file.type)

\* The results of the files of unsupported type have the given status, text
\* length 0 and no text.
UnsupportedResultsAre(status) ==
    \A i \in DOMAIN processed_files_info :
        IsUnsupported(uploads[i])
            => /\ processed_files_info[i].status = status
               /\ processed_files_info[i].text_length = 0
               /\ ~processed_files_info[i].has_ocr_text

\* The step that processes a file of unsupported type changes nothing that
\* the processing of the files after it reads or writes (credential, backend
\* switch, aggregate text, dumps, combined file) and calls neither OCR nor
\* pdf_to_images nor a file write; it adds one result and moves the loop to
\* the next file.
UnsupportedStepIsInert ==
    (pipe_pc = "process" /\ IsUnsupported(uploads[file_i + 1]))
        => /\ pipe_pc' = "loop"
           /\ file_i' = file_i + 1
           /\ Len(processed_files_info') = Len(processed_files_info) + 1
           /\ last_call' = NoCall
           /\ UNCHANGED <<uploads, pipe_key, use_nemotron, all_ocr_text,
                          ocr_dumps, combined_file>>

\* C12 as claimed: a file whose type is neither image/* nor application/pdf
\* has status exactly "Unsupported", text length 0 and no error, and leaves
\* the processing of the files after it as it would be without it.
C12_UnsupportedStatus ==
    [](UnsupportedResultsAre("Unsupported")) /\ [][UnsupportedStepIsInert]_vars

\* C12 amended: the same with the status the code gives, "Unsupported format".
C12_UnsupportedFormatStatus ==
    [](UnsupportedResultsAre("Unsupported format")) /\ [][UnsupportedStepIsInert]_vars

\* An unsupported file was processed and the file after it went on to succeed.
C12_Witness ==
    \E i \in DOMAIN processed_files_info :
        /\ IsUnsupported(uploads[i])
        /\ i + 1 \in DOMAIN processed_files_info
        /\ processed_files_info[i + 1].status = "Success"

\* The backends a call of extract_text_from_image called, in call order.
BackendsOf(ret) == [k \in DOMAIN ret.tried |-> ret.tried[k].backend]

Called(ret, backend) == \E k \in DOMAIN ret.tried : ret.tried[k].backend = backend

\* What the remote backend gave a call that called it.
RemoteGave(ret) ==
    LET k == CHOOSE j \in DOMAIN ret.tried : ret.tried[j].backend = "remote"
    IN  ret.tried[k].gave

\* C14: in every call of extract_text_from_image the remote backend is
\* called, and called first, exactly when it is switched on and a credential
\* is present; the local engine is called exactly when the remote one was not
\* called, failed, or gave text of fewer than 10 characters; the remote
\* backend is never called after the local one.
C14_RemoteFirstThenLocal ==
    last_call.kind = "ocr"
        => LET ret == last_call.ret
               order == BackendsOf(ret)
           IN  /\ Called(ret, "remote") <=> (use_nemotron /\ pipe_key # "")
               /\ Called(ret, "remote") => order[1] = "remote"
               /\ Called(ret, "local")
                     <=> \/ ~Called(ret, "remote")
                         \/ RemoteGave(ret).raised
                         \/ RemoteGave(ret).text.none
                         \/ StrLen(StripStr(RemoteGave(ret).text.str)) < MinOcrLen
               /\ \A i, j \in DOMAIN order :
                     (order[i] = "local" /\ order[j] = "remote") => j < i

\* What the local engine gave a call that called it.
LocalGave(ret) ==
    LET k == CHOOSE j \in DOMAIN ret.tried : ret.tried[j].backend = "local"
    IN  ret.tried[k].gave

\* The backend failed, or gave no text.
GaveNothing(gave) == gave.raised \/ gave.text.none \/ gave.text.str = <<>>

\* C15: no call of extract_text_from_image raises; each returns a text and
\* the name of a backend, and a call whose local engine failed or gave no
\* text returns the sentinel with the backend "Failed".
C15_ExtractNeverRaises ==
    last_call.kind = "ocr"
        => LET ret == last_call.ret
           IN  /\ ~ret.raised
               /\ ret.text # <<>>
               /\ ret.method \in {"NVIDIA Nemotron", "Tesseract", "Failed"}
               /\ (Called(ret, "local") /\ GaveNothing(LocalGave(ret)))
                     => (ret.text = <<Sentinel>> /\ ret.method = "Failed")

\* A call in which the remote backend failed and then the local engine failed.
C15_Witness ==
    /\ last_call.kind = "ocr"
    /\ BackendsOf(last_call.ret) = <<"remote", "local">>
    /\ RemoteGave(last_call.ret).text.none
    /\ LocalGave(last_call.ret).text.none
    /\ last_call.ret.method = "Failed"

\* C16: when a call of pdf_to_images returns, the scratch file it created is
\* gone, whichever step failed: the write of the bytes, the opening of the
\* document, the rendering of a page, or none.
C16_ScratchFileRemoved ==
    last_call.kind = "pdf_to_images" => last_call.ret.left = 0

\* The concatenation, in order, of header and text of the results whose
\* status is "Success".
RECURSIVE SuccessTexts(_)
SuccessTexts(results) ==
    IF results = <<>>
    THEN <<>>
    ELSE (IF Head(results).status = "Success"
          THEN <<FileHeader(Head(results).filename), Ws(2)>>
                   \o Head(results).ocr_text \o <<Ws(2)>>
          ELSE <<>>)
         \o SuccessTexts(Tail(results))

\* C17: when process_uploaded_files has returned, the results are those of
\* the uploads in upload order and the aggregate text is the concatenation
\* of header and text of the files with status "Success", and of nothing
\* else: no piece of an earlier run's aggregate is in it.  (With no such
\* file the function returns None for the text.)
C17_AggregateIsSuccessTexts ==
    pipe_pc = "returned"
        => /\ Len(processed_files_info) = Len(uploads)
           /\ \A i \in DOMAIN uploads :
                 processed_files_info[i].filename = uploads[i].name
           /\ all_ocr_text = SuccessTexts(processed_files_info)
           /\ \A k \in DOMAIN all_ocr_text : all_ocr_text[k] # Head(PreviousAggregate)
           /\ (pipe_ret = "nothing") <=> (all_ocr_text = <<>>)

\* A run has returned the aggregate of two files, the first of which failed
\* or was skipped and the second of which succeeded.
C17_Witness ==
    /\ pipe_pc = "returned"
    /\ pipe_ret = "data"
    /\ Len(processed_files_info) = 2
    /\ processed_files_info[1].status # "Success"
    /\ processed_files_info[2].status = "Success"
    /\ combined_file = FileWith(all_ocr_text)

\* The statuses process_single_file gives: lines 276 and 318, 286, 326, and
\* 334 with the exceptions of the model.
CodeStatuses ==
    {"Success", "Failed: No images extracted", "Unsupported format",
     "Error: cannot identify image file", "Error: cannot write file",
     "Error: OCR raised"}

\* The run is over: process_uploaded_files has returned or raised.
RunOver == pipe_pc \in {"returned", "raised"}

\* The loop of process_uploaded_files is at a file that is still to be
\* handled, or past the last one and about to write the combined file: the
\* guard of one of the steps of the pipeline holds.
RunGoesOn ==
    \/ pipe_pc = "loop" /\ file_i <= Len(uploads)
    \/ pipe_pc \in {"process", "pages"} /\ file_i < Len(uploads)

\* There is one result per file handled so far, in upload order, each with
\* one of the given statuses; the run goes on until it is over, and then
\* every upload has its result; the run does not end by an exception that
\* came out of the handling of a file.
FailuresAbsorbed(statuses) ==
    /\ Len(processed_files_info) = file_i
    /\ ~RunOver => RunGoesOn
    /\ \A i \in DOMAIN processed_files_info :
          /\ processed_files_info[i].filename = uploads[i].name
          /\ processed_files_info[i].status \in statuses
    /\ RunOver => Len(processed_files_info) = Len(uploads)
    /\ pipe_pc = "raised"
          => (last_call.kind = "write" /\ last_call.artifact = "combined")

C19_DumpHoldsOwnText ==
    RunOver
        => \A i \in DOMAIN processed_files_info :
              (/\ processed_files_info[i].status = "Success"
               /\ \A j \in DOMAIN uploads : j > i => uploads[j].name # uploads[i].name)
                  => ocr_dumps[PathStem(uploads[i].name)]
                        = FileWith(processed_files_info[i].ocr_text)

====
